---- MODULE Spec2Model ----
(***************************************************************************)
(* A model of whoiser (src/src/index.ts): the transport whoisQuery, the    *)
(* TLD resolver whoisTld, the domain resolver whoisDomain and the          *)
(* process-wide TLD->server cache.                                         *)
(*                                                                         *)
(* A JavaScript string is a sequence of tokens: "http://whois.a/x" is      *)
(* <<"http", "://", "whois.a", "/x">>, a bare hostname is <<"whois.a">>.   *)
(* A string is cut at the places the code looks at: a scheme, the "://"    *)
(* separator, the host, then a port or path.  A record is a function from  *)
(* field names to strings.  A server's response is given by the record the *)
(* parsers (./parsers, not part of the sources at hand) yield from it.     *)
(***************************************************************************)
EXTENDS Integers, Sequences, FiniteSets, TLC

\* ------------------------------------------------------------------ values

\* undefined / false: the values the code only ever tests for truthiness.
Undefined == <<"<undefined>">>

\* JavaScript truthiness of a string-or-undefined value ('' is falsy).
Truthy(v) == v # Undefined /\ v # <<>>

\* `${v}` in a template literal.
Tmpl(v) == IF v = Undefined THEN <<"undefined">> ELSE v

\* rec[f] of a JavaScript object: undefined when the field is absent.
Field(rec, f) == IF f \in DOMAIN rec THEN rec[f] ELSE Undefined

EmptyRecord == [f \in {} |-> <<>>]

\* {...rec, f: v}
WithField(rec, f, v) == [g \in DOMAIN rec \cup {f} |-> IF g = f THEN v ELSE rec[g]]

\* s.includes(tok), for a tok that is one of the tokens strings are cut at.
Includes(s, tok) == \E i \in DOMAIN s : s[i] = tok

\* ------------------------------------------------------------------ tables

\* The seeded part of cacheTldWhoisServer.
SeedPairs ==
  { <<"com", "whois.verisign-grs.com">>, <<"net", "whois.verisign-grs.com">>,
    <<"org", "whois.pir.org">>, <<"ai", "whois.nic.ai">>,
    <<"au", "whois.auda.org.au">>, <<"co", "whois.nic.co">>,
    <<"ca", "whois.cira.ca">>, <<"do", "whois.nic.do">>, <<"eu", "whois.eu">>,
    <<"gl", "whois.nic.gl">>, <<"in", "whois.registry.in">>,
    <<"io", "whois.nic.io">>, <<"it", "whois.nic.it">>, <<"me", "whois.nic.me">>,
    <<"ro", "whois.rotld.ro">>, <<"rs", "whois.rnids.rs">>,
    <<"so", "whois.nic.so">>, <<"us", "whois.nic.us">>,
    <<"ws", "whois.website.ws">>, <<"agency", "whois.nic.agency">>,
    <<"app", "whois.nic.google">>, <<"biz", "whois.nic.biz">>,
    <<"country", "whois.uniregistry.net">>, <<"dev", "whois.nic.google">>,
    <<"house", "whois.nic.house">>, <<"health", "whois.nic.health">>,
    <<"info", "whois.nic.info">>, <<"link", "whois.uniregistry.net">>,
    <<"live", "whois.nic.live">>, <<"nyc", "whois.nic.nyc">>,
    <<"one", "whois.nic.one">>, <<"online", "whois.nic.online">>,
    <<"shop", "whois.nic.shop">>, <<"site", "whois.nic.site">>,
    <<"xyz", "whois.nic.xyz">> }

SeedTlds == { <<pr[1]>> : pr \in SeedPairs }

cacheTldWhoisServer0 ==
  [t \in SeedTlds |-> << (CHOOSE pr \in SeedPairs : pr[1] = t[1])[2] >>]

\* misspelledWhoisServer: the malformed names servers publish, as keys.
MisspelledKeys ==
  { <<"www.gandi.net", "/whois">>, <<"who.godaddy.com", "/">>,
    <<"whois.godaddy.com", "/">>, <<"www.nic.ru", "/whois/en/">>,
    <<"www.whois.corporatedomains.com">>,
    <<"www.safenames.net", "/DomainNames/WhoisSearch.aspx">>,
    <<"WWW.GNAME.COM", "/WHOIS">> }

misspelledWhoisServer ==
  [k \in MisspelledKeys |->
     CASE k = <<"www.gandi.net", "/whois">> -> <<"whois.gandi.net">>
       [] k = <<"who.godaddy.com", "/">> -> <<"whois.godaddy.com">>
       [] k = <<"whois.godaddy.com", "/">> -> <<"whois.godaddy.com">>
       [] k = <<"www.nic.ru", "/whois/en/">> -> <<"whois.nic.ru">>
       [] k = <<"www.whois.corporatedomains.com">> -> <<"whois.corporatedomains.com">>
       [] k = <<"www.safenames.net", "/DomainNames/WhoisSearch.aspx">> -> <<"whois.safenames.net">>
       [] k = <<"WWW.GNAME.COM", "/WHOIS">> -> <<"whois.gname.com">>]

\* misspelledWhoisServer[s] || s
CorrectMisspelled(s) == IF s \in MisspelledKeys THEN misspelledWhoisServer[s] ELSE s

\* The referral fields of a domain record, in the order the code tries them.
ReferralFields ==
  << "Registrar WHOIS Server", "Registry WHOIS Server", "ReferralServer",
     "Registrar Whois", "Whois Server", "WHOIS Server" >>

IanaHost == <<"whois.iana.org">>
GoogleHost == <<"whois.google.com">>

\* ------------------------------------------------------------------ URLs

\* Schemes for which the URL parser demands a host and lower-cases it.
SpecialSchemes == {"http", "https"}
\* Schemes whose host is kept as written and may be empty.
OtherSchemes == {"rwhois", "whois"}

\* The tokens that are host names.
HostTokens ==
  { "whois.a", "whois.b", "WHOIS.B", "whois.godaddy.com", "whois.google.com",
    "whois.verisign-grs.com", "whois.iana.org", "domains.google" }

\* String.prototype.toLowerCase on a host token.
Lower(tok) == IF tok = "WHOIS.B" THEN "whois.b" ELSE tok

\* Whether new URL(s) returns (TRUE) or throws a TypeError (FALSE).
URLParses(s) ==
  /\ Len(s) >= 2
  /\ s[1] \in SpecialSchemes \cup OtherSchemes
  /\ s[2] = "://"
  /\ s[1] \in SpecialSchemes => Len(s) >= 3 /\ s[3] \in HostTokens

\* new URL(s).hostname, for an s that parses.
URLHostname(s) ==
  IF Len(s) >= 3 /\ s[3] \in HostTokens
  THEN IF s[1] \in SpecialSchemes THEN << Lower(s[3]) >> ELSE << s[3] >>
  ELSE <<>>

\* ------------------------------------------------------- next-hop selection

\* A variant that takes the last referral field set instead of the first.
FirstReferralLast(result, i) ==
  LET S == { k \in i .. Len(ReferralFields) : Truthy(Field(result, ReferralFields[k])) }
  IN IF S = {} THEN Undefined
     ELSE result[ReferralFields[CHOOSE k \in S : \A j \in S : j <= k]]

\* a || b || ... || false over the referral fields from index i on.
RECURSIVE FirstReferral(_, _)
FirstReferral(result, i) ==
  IF i > Len(ReferralFields) THEN Undefined
  ELSE IF Truthy(Field(result, ReferralFields[i])) THEN result[ReferralFields[i]]
  ELSE FirstReferral(result, i + 1)

\* The candidate after the 'Registrar URL' substitution.
Candidate(result) ==
  LET first == FirstReferral(result, 1) IN
    IF /\ ~Truthy(first)
       /\ Truthy(Field(result, "Registrar URL"))
       /\ Includes(result["Registrar URL"], "domains.google")
    THEN GoogleHost
    ELSE first

\* Whether the URL reduction of the candidate throws.
NextHopThrows(result) ==
  LET c == Candidate(result) IN
    Truthy(c) /\ Includes(c, "://") /\ ~URLParses(c)

\* The already-queried test: results[server] is set.
AlreadyQueried(queried, server) == server \in DOMAIN queried

\* The candidate reduced to a host name and corrected.
Reduced(c) == CorrectMisspelled(IF Includes(c, "://") THEN URLHostname(c) ELSE c)

\* A variant that tests the referral value as published, before it is
\* reduced to a host name and corrected.
NextWhoisServerUnreduced(result, queried) ==
  LET c == Candidate(result) IN
    IF ~Truthy(c) THEN Undefined
    ELSE IF AlreadyQueried(queried, c) THEN Undefined
    ELSE Reduced(c)

\* nextWhoisServer at the end of one turn of the loop (when nothing threw).
NextWhoisServer(result, queried) ==
  LET c == Candidate(result) IN
    IF ~Truthy(c) THEN Undefined
    ELSE IF AlreadyQueried(queried, Reduced(c)) THEN Undefined
    ELSE Reduced(c)

\* The query line sent to a server of the walk.
HopQuery(h, domain) ==
  IF h = <<"whois.denic.de">> THEN <<"-T dn ">> \o domain
  ELSE IF h = <<"whois.jprs.jp">> THEN domain \o <<"/e">>
  ELSE domain

\* splitStringBy(domain, domain.lastIndexOf('.'))[1]: the part after the last dot.
LastDot(domain) ==
  LET dots == { i \in DOMAIN domain : domain[i] = "." } IN
    IF dots = {} THEN 0 ELSE CHOOSE i \in dots : \A j \in dots : j <= i

DomainTld(domain) == SubSeq(domain, LastDot(domain) + 1, Len(domain))

\* ------------------------------------------------------------------- state

VARIABLES
  cacheWrites, \* the assignments made to cacheTldWhoisServer since it was loaded
  pc,         \* per call: idle, iana, dns, hop, ipiana, iphop, done, failed
  op,         \* per call: "domain" (whoisDomain), "tld" (whoisTld), "ip" (whoisIpOrAsn)
  query,      \* per call: the domain or the TLD query as passed
  hostOpt,    \* per call: the host option as passed
  followOpt,  \* per call: the follow option as passed (the default when absent)
  host,       \* per call: whoisDomain's host variable
  follow,     \* per call: whoisDomain's follow variable
  results,    \* per call: whoisDomain's results object
  sent,       \* per call: the whoisQuery calls made so far, in order
  tldData,    \* per call: whoisTld's data record
  dnsCname,   \* per call: dns.resolveCname promise of whoisTldAlternate
  dnsSrv,     \* per call: dns.resolveSrv promise of whoisTldAlternate
  ret,        \* per call: how the returned promise settled
  missed,     \* per call: whoisDomain found no server in the cache
  ipData,     \* per call: whoisIpOrAsn's data variable
  crashed,    \* an 'error' event nobody listens to ended the process
  calls,      \* the number of calls made so far
  \* one whoisQuery call, seen from inside:
  qPhase,     \* idle, connecting, open, closing, closed
  qProxy,     \* proxyOptions was passed
  qListening, \* addSocketEvents has run: the listeners and the timer are set
  qIdle,      \* ticks since the socket was last active
  qElapsed,   \* ticks since whoisQuery was called
  qOpenedAt,  \* qElapsed when the connection was established
  qData,      \* the data variable: the chunks received
  qEvents,    \* the events the socket is about to emit, in order
  qPromise,   \* the promise whoisQuery returned
  qSockErr,   \* the error the socket or the proxy client ran into, if any
  qPeerClosed, \* the peer closed the connection
  qConnects   \* the connections whoisQuery opened

\* The resolvers' state but for crashed.
rvars == << cacheWrites, pc, op, query, hostOpt, followOpt, host, follow, results,
            sent, tldData, dnsCname, dnsSrv, ret, missed, ipData, calls >>
\* The state of the whoisQuery call.
qvars == << qPhase, qProxy, qListening, qIdle, qElapsed, qOpenedAt, qData, qEvents,
            qPromise, qSockErr, qPeerClosed, qConnects >>

vars == << rvars, crashed, qvars >>

\* ------------------------------------------------------------------ bounds

\* The calls made during one run of the process.
MaxCalls == 2
\* The largest follow option passed.
MaxFollow == 2
\* follow's default.
DefaultFollow == 2

Procs == {"p1", "p2"}

NoWrites == [t \in {} |-> <<>>]

\* cacheTldWhoisServer, shared by every call: the seeded object with the
\* assignments made since.
cache ==
  [t \in SeedTlds \cup DOMAIN cacheWrites |->
     IF t \in DOMAIN cacheWrites THEN cacheWrites[t] ELSE cacheTldWhoisServer0[t]]

NoResults == [h \in {} |-> EmptyRecord]
\* `let data`: declared, not assigned.
NoData == [set |-> FALSE, rec |-> EmptyRecord]
NoRet == [kind |-> "pending", value |-> EmptyRecord, error |-> <<>>]
Pending == [state |-> "pending", value |-> <<>>]

HostA == <<"whois.a">>
HostB == <<"whois.b">>

\* Domains passed to whoisDomain: a seeded TLD and one that is not.
Domains == { <<"example", ".", "com">>, <<"example", ".", "zz">> }
\* The labels among the tokens that are two to sixty-four letters.
LetterLabels == {"com", "zz"}
\* isTld: after dropping a leading dot, one label of letters (no token used
\* here has the xn form).
isTld(tld) ==
  LET t == IF tld # <<>> /\ tld[1] = "." THEN Tail(tld) ELSE tld
  IN Len(t) = 1 /\ t[1] \in LetterLabels

\* Queries passed to whoisTld.
TldQueries == { Undefined, <<"zz">>, <<"com">>, <<"-abc">> }
\* The host option: absent, or a server.
HostOptions == { Undefined, HostA }
\* The follow option: absent (the default), or a number, -1 included.
FollowOptions == (-1 .. MaxFollow) \cup {DefaultFollow}

\* What whois.iana.org answers, parsed by parseSimpleWhois.
IanaRecords ==
  { EmptyRecord,
    [domain |-> <<"ZZ">>],
    [whois |-> HostA],
    [domain |-> <<"ZZ">>, whois |-> HostA],
    [domain |-> <<"ZZ">>, whois |-> HostB] }

\* How a DNS lookup settles: rejected, or fulfilled with a list of answers.
CnameOutcomes ==
  { [state |-> "rejected", value |-> <<>>],
    [state |-> "fulfilled", value |-> <<>>],
    [state |-> "fulfilled", value |-> << HostA >>] }
SrvOutcomes ==
  { [state |-> "rejected", value |-> <<>>],
    [state |-> "fulfilled", value |-> <<>>],
    [state |-> "fulfilled", value |-> << [name |-> HostB] >>] }

\* One-field records: referral field f with value v.
Ref(f, v) == [g \in {f} |-> v]

\* What a server of the walk answers, parsed by parseDomainWhois.
DomainRecords ==
  { EmptyRecord,
    Ref("Registrar WHOIS Server", HostA),
    Ref("Registrar WHOIS Server", HostB),
    Ref("Registry WHOIS Server", <<"http", "://", "whois.a", "/">>),
    Ref("ReferralServer", <<"rwhois", "://", "whois.a", ":4321">>),
    Ref("Registrar Whois", <<"https", "://", "WHOIS.B">>),
    Ref("Whois Server", <<"whois.godaddy.com", "/">>),
    Ref("WHOIS Server", <<"whois.godaddy.com">>),
    Ref("WHOIS Server", <<"://", "whois.a">>),
    Ref("Registrar WHOIS Server", <<"http", "://">>),
    Ref("Registrar URL", <<"https", "://", "domains.google", "/">>),
    [g \in {"Registrar URL", "WHOIS Server"} |->
       IF g = "WHOIS Server" THEN HostB ELSE <<"https", "://", "domains.google", "/">>],
    [g \in {"Registry WHOIS Server", "Whois Server"} |->
       IF g = "Whois Server" THEN HostA ELSE HostB] }

\* The messages of the errors whoisQuery rejects with.
QueryErrors == { <<"Timeout">>, <<"read ECONNRESET">> }

\* ----------------------------------------------------------------- helpers

\* A variant whose message leaves the query out.
TldNotFoundBare(q) == <<"TLD not found">>

\* `TLD "${query}" not found`
TldNotFound(q) == <<"TLD \"">> \o Tmpl(q) \o <<"\" not found">>
\* A variant whose message names no domain.
TldUnsupportedBare(d) == <<"TLD not supported">>

\* `TLD for "${domain}" not supported`
TldUnsupported(d) == <<"TLD for \"">> \o Tmpl(d) \o <<"\" not supported">>

\* One whoisQuery call, as logged: its promise is pending.
Sent(h, q, who) ==
  [host |-> h, query |-> q, by |-> who, outcome |-> "pending", answer |-> EmptyRecord]

\* The promise of the last whoisQuery call settled.
Settled(log, how, answer) ==
  [log EXCEPT ![Len(log)] = [@ EXCEPT !.outcome = how, !.answer = answer]]

\* A variant that assigns a fresh object holding the one entry.
CacheWriteReplace(c, tld, server) == [t \in {tld} |-> server]

\* A variant that forgets the assignment.
CacheWriteDropped(c, tld, server) == c

\* cacheTldWhoisServer[tld] = server
CacheWrite(c, tld, server) == WithField(c, tld, server)

\* A variant that prefers the CNAME answer to the SRV answer.
AlternateWhoisCnameFirst(cname, srv) ==
  IF cname.state = "fulfilled" /\ Len(cname.value) > 0 THEN cname.value[1]
  ELSE IF srv.state = "fulfilled" /\ Len(srv.value) > 0 THEN srv.value[1].name
  ELSE Undefined

\* A variant without the CNAME source.
AlternateWhoisSrvOnly(cname, srv) ==
  IF srv.state = "fulfilled" /\ Len(srv.value) > 0 THEN srv.value[1].name
  ELSE Undefined

\* whoisSrv?.value?.[0]?.name ?? whoisCname?.value?.[0]
AlternateWhois(cname, srv) ==
  IF srv.state = "fulfilled" /\ Len(srv.value) > 0 THEN srv.value[1].name
  ELSE IF cname.state = "fulfilled" /\ Len(cname.value) > 0 THEN cname.value[1]
  ELSE Undefined

\* The name whoisTld hands to whoisTldAlternate: domainTld || query.
DnsSubject(p) == IF op[p] = "domain" THEN DomainTld(query[p]) ELSE query[p]

\* A variant that lets every record through.
NothingFoundNever(data) == FALSE

\* !data.domain && !data.whois
NothingFound(data) == ~Truthy(Field(data, "domain")) /\ ~Truthy(Field(data, "whois"))

\* The call's promise is fulfilled with v.
Return(p, v) ==
  /\ pc' = [pc EXCEPT ![p] = "done"]
  /\ ret' = [ret EXCEPT ![p] = [kind |-> "fulfilled", value |-> v, error |-> <<>>]]

\* The call's promise is rejected with an error of message msg.
Throw(p, msg) ==
  /\ pc' = [pc EXCEPT ![p] = "failed"]
  /\ ret' = [ret EXCEPT ![p] = [kind |-> "rejected", value |-> EmptyRecord, error |-> msg]]

\* The test at the head of `while (host && follow)`.
LoopGuard(h, f) == Truthy(h) /\ f # 0

\* The head of whoisDomain's loop with host h, follow f and results res: the
\* next query is sent, or the results are returned.
Walk(p, d, h, f, res, log) ==
  /\ host' = [host EXCEPT ![p] = h]
  /\ follow' = [follow EXCEPT ![p] = f]
  /\ results' = [results EXCEPT ![p] = res]
  /\ IF LoopGuard(h, f)
     THEN /\ sent' = [sent EXCEPT ![p] = Append(log, Sent(h, HopQuery(h, d), "walk"))]
          /\ pc' = [pc EXCEPT ![p] = "hop"]
          /\ ret' = [ret EXCEPT ![p] = NoRet]
     ELSE /\ sent' = [sent EXCEPT ![p] = log]
          /\ Return(p, res)

\* whoisTld from its TldNotFound test on, and for a domain call whoisDomain
\* from the TldUnsupported test to the head of the loop.
TldReturn(p, data, log) ==
  IF NothingFound(data)
  THEN /\ Throw(p, TldNotFound(query[p]))
       /\ sent' = [sent EXCEPT ![p] = log]
       /\ UNCHANGED << cacheWrites, host, follow, results >>
  ELSE IF op[p] = "tld"
  THEN /\ Return(p, data)
       /\ sent' = [sent EXCEPT ![p] = log]
       /\ UNCHANGED << cacheWrites, host, follow, results >>
  ELSE IF ~Truthy(Field(data, "whois"))
  THEN /\ Throw(p, TldUnsupported(query[p]))
       /\ sent' = [sent EXCEPT ![p] = log]
       /\ UNCHANGED << cacheWrites, host, follow, results >>
  ELSE /\ cacheWrites' = CacheWrite(cacheWrites, DomainTld(query[p]), data.whois)
       /\ Walk(p, query[p], data.whois, follow[p], NoResults, log)

\* One turn of whoisDomain's loop from the stored result on.
HopStep(p, result, log) ==
  LET res == WithField(results[p], host[p], result)
      f == follow[p] - 1
  IN IF NextHopThrows(result)
     THEN /\ results' = [results EXCEPT ![p] = res]
          /\ follow' = [follow EXCEPT ![p] = f]
          /\ sent' = [sent EXCEPT ![p] = log]
          /\ Throw(p, <<"Invalid URL">>)
          /\ UNCHANGED host
     ELSE Walk(p, query[p], NextWhoisServer(result, res), f, res, log)

Callable(p) == ~crashed /\ calls < MaxCalls /\ pc[p] \in {"idle", "done", "failed"}

\* ----------------------------------------------------------------- actions

\* whoisDomain(d, {host: h, follow: f}) up to its first await.
CallDomain(p, d, h, f) ==
  /\ Callable(p)
  /\ calls' = calls + 1
  /\ op' = [op EXCEPT ![p] = "domain"]
  /\ query' = [query EXCEPT ![p] = d]
  /\ hostOpt' = [hostOpt EXCEPT ![p] = h]
  /\ followOpt' = [followOpt EXCEPT ![p] = f]
  /\ tldData' = [tldData EXCEPT ![p] = EmptyRecord]
  /\ dnsCname' = [dnsCname EXCEPT ![p] = Pending]
  /\ dnsSrv' = [dnsSrv EXCEPT ![p] = Pending]
  /\ LET tld == DomainTld(d)
         h1 == IF ~Truthy(h) /\ Truthy(Field(cache, tld)) THEN cache[tld] ELSE h
     IN IF ~Truthy(h1)
        THEN /\ missed' = [missed EXCEPT ![p] = TRUE]
             /\ host' = [host EXCEPT ![p] = h1]
             /\ follow' = [follow EXCEPT ![p] = f]
             /\ results' = [results EXCEPT ![p] = NoResults]
             /\ sent' = [sent EXCEPT ![p] = << Sent(IanaHost, d, "tld") >>]
             /\ pc' = [pc EXCEPT ![p] = "iana"]
             /\ ret' = [ret EXCEPT ![p] = NoRet]
        ELSE /\ missed' = [missed EXCEPT ![p] = FALSE]
             /\ Walk(p, d, h1, f, NoResults, <<>>)
  /\ UNCHANGED << cacheWrites, crashed >>
  /\ UNCHANGED << ipData, qvars >>

\* whoisTld(q) up to its await of whoisQuery.
CallTld(p, q) ==
  /\ Callable(p)
  /\ calls' = calls + 1
  /\ op' = [op EXCEPT ![p] = "tld"]
  /\ query' = [query EXCEPT ![p] = q]
  /\ hostOpt' = [hostOpt EXCEPT ![p] = Undefined]
  /\ followOpt' = [followOpt EXCEPT ![p] = DefaultFollow]
  /\ host' = [host EXCEPT ![p] = Undefined]
  /\ follow' = [follow EXCEPT ![p] = DefaultFollow]
  /\ results' = [results EXCEPT ![p] = NoResults]
  /\ tldData' = [tldData EXCEPT ![p] = EmptyRecord]
  /\ dnsCname' = [dnsCname EXCEPT ![p] = Pending]
  /\ dnsSrv' = [dnsSrv EXCEPT ![p] = Pending]
  /\ missed' = [missed EXCEPT ![p] = FALSE]
  /\ sent' = [sent EXCEPT ![p] = << Sent(IanaHost, q, "tld") >>]
  /\ pc' = [pc EXCEPT ![p] = "iana"]
  /\ ret' = [ret EXCEPT ![p] = NoRet]
  /\ UNCHANGED << cacheWrites, crashed >>
  /\ UNCHANGED << ipData, qvars >>

\* whois.iana.org answered: whoisTld goes on to the DNS lookups or to its end.
IanaResolve(p, data) ==
  /\ ~crashed /\ pc[p] = "iana"
  /\ tldData' = [tldData EXCEPT ![p] = data]
  /\ IF ~Truthy(Field(data, "whois"))
     THEN /\ pc' = [pc EXCEPT ![p] = "dns"]
          /\ dnsCname' = [dnsCname EXCEPT ![p] = Pending]
          /\ dnsSrv' = [dnsSrv EXCEPT ![p] = Pending]
          /\ sent' = [sent EXCEPT ![p] = Settled(@, "fulfilled", data)]
          /\ UNCHANGED << cacheWrites, host, follow, results, ret >>
     ELSE /\ TldReturn(p, data, Settled(sent[p], "fulfilled", data))
          /\ UNCHANGED << dnsCname, dnsSrv >>
  /\ UNCHANGED << op, query, hostOpt, followOpt, missed, crashed, calls >>
  /\ UNCHANGED << ipData, qvars >>

\* The query to whois.iana.org was rejected: nothing catches it.
IanaReject(p, e) ==
  /\ ~crashed /\ pc[p] = "iana"
  /\ Throw(p, e)
  /\ sent' = [sent EXCEPT ![p] = Settled(@, "rejected", [error |-> e])]
  /\ UNCHANGED << cacheWrites, op, query, hostOpt, followOpt, host, follow, results,
                  tldData, dnsCname, dnsSrv, missed, crashed, calls >>
  /\ UNCHANGED << ipData, qvars >>

\* The socket failed before it connected: no listener, the process ends.
QueryCrash(p) ==
  /\ ~crashed /\ pc[p] \in {"iana", "hop", "ipiana", "iphop"}
  /\ crashed' = TRUE
  /\ sent' = [sent EXCEPT ![p] = Settled(@, "unhandled", EmptyRecord)]
  /\ UNCHANGED << cacheWrites, pc, op, query, hostOpt, followOpt, host, follow, results,
                  tldData, dnsCname, dnsSrv, ret, missed, calls >>
  /\ UNCHANGED << ipData, qvars >>

\* dns.resolveCname settled.
DnsCnameSettle(p, o) ==
  /\ ~crashed /\ pc[p] = "dns" /\ dnsCname[p].state = "pending"
  /\ dnsCname' = [dnsCname EXCEPT ![p] = o]
  /\ UNCHANGED << cacheWrites, pc, op, query, hostOpt, followOpt, host, follow, results,
                  sent, tldData, dnsSrv, ret, missed, crashed, calls >>
  /\ UNCHANGED << ipData, qvars >>

\* dns.resolveSrv settled.
DnsSrvSettle(p, o) ==
  /\ ~crashed /\ pc[p] = "dns" /\ dnsSrv[p].state = "pending"
  /\ dnsSrv' = [dnsSrv EXCEPT ![p] = o]
  /\ UNCHANGED << cacheWrites, pc, op, query, hostOpt, followOpt, host, follow, results,
                  sent, tldData, dnsCname, ret, missed, crashed, calls >>
  /\ UNCHANGED << ipData, qvars >>

\* Promise.allSettled resolved: whoisTldAlternate returns and whoisTld ends.
DnsJoin(p) ==
  /\ ~crashed /\ pc[p] = "dns"
  /\ dnsCname[p].state # "pending" /\ dnsSrv[p].state # "pending"
  /\ LET whois == AlternateWhois(dnsCname[p], dnsSrv[p])
         data == IF Truthy(whois)
                 THEN WithField(WithField(tldData[p], "whois", whois), "domain",
                        IF Truthy(Field(tldData[p], "domain"))
                        THEN tldData[p].domain ELSE whois)
                 ELSE tldData[p]
     IN /\ tldData' = [tldData EXCEPT ![p] = data]
        /\ TldReturn(p, data, sent[p])
  /\ UNCHANGED << op, query, hostOpt, followOpt, dnsCname, dnsSrv, missed, crashed,
                  calls >>
  /\ UNCHANGED << ipData, qvars >>

\* A server of the walk answered with a response parsed as `result`.
HopResolve(p, result) ==
  /\ ~crashed /\ pc[p] = "hop"
  /\ HopStep(p, result, Settled(sent[p], "fulfilled", result))
  /\ UNCHANGED << cacheWrites, op, query, hostOpt, followOpt, tldData, dnsCname, dnsSrv,
                  missed, crashed, calls >>
  /\ UNCHANGED << ipData, qvars >>

\* The query to a server of the walk was rejected: the catch makes it a record.
HopReject(p, e) ==
  /\ ~crashed /\ pc[p] = "hop"
  /\ HopStep(p, [error |-> e], Settled(sent[p], "rejected", [error |-> e]))
  /\ UNCHANGED << cacheWrites, op, query, hostOpt, followOpt, tldData, dnsCname, dnsSrv,
                  missed, crashed, calls >>
  /\ UNCHANGED << ipData, qvars >>

\* ------------------------------------------------------------ whoisIpOrAsn

\* The queries the walk of one whoisIpOrAsn call may send before the model
\* stops following it.
MaxIpQueries == 3

ArinHost == <<"whois.arin.net">>

\* The inputs net.isIP accepts, among those passed.
IpLiterals == { <<"1.1.1.1">>, <<"2606:4700:4700::1111">> }
\* net.isIP(query) as a boolean.
isIP(q) == q \in IpLiterals

\* Queries passed to whoisIpOrAsn.
IpQueries == { <<"1.1.1.1">>, <<"AS13335">> }
\* The host option of whoisIpOrAsn.
IpHostOptions == { Undefined, HostA, ArinHost }

\* What whois.iana.org answers to an IP or AS query, parsed by parseSimpleWhois.
IpIanaRecords ==
  { EmptyRecord, [whois |-> HostA], [whois |-> ArinHost],
    [refer |-> HostA] }

\* What a server of the IP walk answers, parsed by parseSimpleWhois.
IpRecords ==
  { EmptyRecord,
    [NetName |-> <<"NET-A">>],
    [range |-> <<"1.1.1.0 - 1.1.1.255">>],
    [ReferralServer |-> <<"whois", "://", "whois.a">>],
    [g \in {"NetName", "ReferralServer"} |->
       IF g = "NetName" THEN <<"NET-B">> ELSE <<"whois", "://", "whois.b">>],
    [ReferralServer |-> <<"whois", "://", "whois.arin.net">>],
    [ReferralServer |-> <<"rwhois", "://", "whois.b", ":4321">>],
    [ReferralServer |-> <<"whois.a">>],
    [ReferralServer |-> <<"rwhois", "://">>] }

\* A variant whose message names no query.
NoWhoisServerBare(q) == <<"No WHOIS server">>

\* `No WHOIS server for "${query}"`
NoWhoisServer(q) == <<"No WHOIS server for \"">> \o Tmpl(q) \o <<"\"">>

\* The places of s that hold the separator '//'.
Slashes(s) == { i \in DOMAIN s : s[i] \in {"://", "//"} }

\* s.split('//')[1]: what stands between the first '//' and the next one,
\* undefined when s holds no '//'.
SplitSecond(s) ==
  IF Slashes(s) = {} THEN Undefined
  ELSE LET i == CHOOSE k \in Slashes(s) : \A j \in Slashes(s) : k <= j
           later == { j \in Slashes(s) : j > i }
           e == IF later = {} THEN Len(s) + 1
                ELSE CHOOSE k \in later : \A j \in later : k <= j
       IN SubSeq(s, i + 1, e - 1)

\* A variant that returns the referral value as published.
ReferralHostWhole(rec) == Field(rec, "ReferralServer")

\* data?.ReferralServer?.split('//')?.[1]
ReferralHost(rec) ==
  IF Field(rec, "ReferralServer") = Undefined THEN Undefined
  ELSE SplitSecond(rec.ReferralServer)

\* modifiedQuery: the query line sent to a server of the IP walk.
IpHopQuery(h, q) ==
  IF h = ArinHost /\ isIP(q) THEN <<"+ n ">> \o q
  ELSE IF h = ArinHost THEN <<"+ a ">> \o q
  ELSE q

\* The head of whoisIpOrAsn's loop for query q, with host h, follow f and data
\* d: the next
\* query is sent, or data is returned.
IpWalk(p, q, h, f, d, log) ==
  /\ host' = [host EXCEPT ![p] = h]
  /\ follow' = [follow EXCEPT ![p] = f]
  /\ ipData' = [ipData EXCEPT ![p] = d]
  /\ IF LoopGuard(h, f)
     THEN /\ sent' = [sent EXCEPT ![p] = Append(log, Sent(h, IpHopQuery(h, q), "walk"))]
          /\ pc' = [pc EXCEPT ![p] = "iphop"]
          /\ ret' = [ret EXCEPT ![p] = NoRet]
     ELSE /\ sent' = [sent EXCEPT ![p] = log]
          /\ Return(p, d.rec)

\* whoisIpOrAsn(q, {host: h, follow: f}) up to its first await.
CallIpOrAsn(p, q, h, f) ==
  /\ Callable(p)
  /\ calls' = calls + 1
  /\ op' = [op EXCEPT ![p] = "ip"]
  /\ query' = [query EXCEPT ![p] = q]
  /\ hostOpt' = [hostOpt EXCEPT ![p] = h]
  /\ followOpt' = [followOpt EXCEPT ![p] = f]
  /\ IF ~Truthy(h)
     THEN /\ host' = [host EXCEPT ![p] = h]
          /\ follow' = [follow EXCEPT ![p] = f]
          /\ ipData' = [ipData EXCEPT ![p] = NoData]
          /\ sent' = [sent EXCEPT ![p] = << Sent(IanaHost, q, "iana") >>]
          /\ pc' = [pc EXCEPT ![p] = "ipiana"]
          /\ ret' = [ret EXCEPT ![p] = NoRet]
     ELSE IpWalk(p, q, h, f, NoData, <<>>)
  /\ results' = [results EXCEPT ![p] = NoResults]
  /\ tldData' = [tldData EXCEPT ![p] = EmptyRecord]
  /\ dnsCname' = [dnsCname EXCEPT ![p] = Pending]
  /\ dnsSrv' = [dnsSrv EXCEPT ![p] = Pending]
  /\ missed' = [missed EXCEPT ![p] = FALSE]
  /\ UNCHANGED << cacheWrites, crashed >>
  /\ UNCHANGED qvars

\* whois.iana.org answered an IP or AS query.
IpIanaResolve(p, parsed) ==
  /\ ~crashed /\ pc[p] = "ipiana"
  /\ LET log == Settled(sent[p], "fulfilled", parsed)
         h == IF Truthy(Field(parsed, "whois")) THEN parsed.whois ELSE host[p]
     IN IF ~Truthy(h)
        THEN /\ Throw(p, NoWhoisServer(query[p]))
             /\ sent' = [sent EXCEPT ![p] = log]
             /\ UNCHANGED << host, follow, ipData >>
        ELSE IpWalk(p, query[p], h, follow[p], NoData, log)
  /\ UNCHANGED << cacheWrites, op, query, hostOpt, followOpt, results, tldData,
                  dnsCname, dnsSrv, missed, crashed, calls >>
  /\ UNCHANGED qvars

\* The query to whois.iana.org was rejected: nothing catches it.
IpIanaReject(p, e) ==
  /\ ~crashed /\ pc[p] = "ipiana"
  /\ Throw(p, e)
  /\ sent' = [sent EXCEPT ![p] = Settled(@, "rejected", [error |-> e])]
  /\ UNCHANGED << cacheWrites, op, query, hostOpt, followOpt, host, follow, results,
                  tldData, dnsCname, dnsSrv, missed, ipData, crashed, calls >>
  /\ UNCHANGED qvars

\* A server of the IP walk answered: data is replaced, follow decremented and
\* host set from ReferralServer.
IpHopResolve(p, rec) ==
  /\ ~crashed /\ pc[p] = "iphop"
  /\ Cardinality({ i \in DOMAIN sent[p] : sent[p][i].by = "walk" }) <= MaxIpQueries
  /\ IpWalk(p, query[p], ReferralHost(rec), follow[p] - 1, [set |-> TRUE, rec |-> rec],
            Settled(sent[p], "fulfilled", rec))
  /\ UNCHANGED << cacheWrites, op, query, hostOpt, followOpt, results, tldData,
                  dnsCname, dnsSrv, missed, crashed, calls >>
  /\ UNCHANGED qvars

\* The query to a server of the IP walk was rejected: nothing catches it.
IpHopReject(p, e) ==
  /\ ~crashed /\ pc[p] = "iphop"
  /\ Throw(p, e)
  /\ sent' = [sent EXCEPT ![p] = Settled(@, "rejected", [error |-> e])]
  /\ UNCHANGED << cacheWrites, op, query, hostOpt, followOpt, host, follow, results,
                  tldData, dnsCname, dnsSrv, missed, ipData, crashed, calls >>
  /\ UNCHANGED qvars

\* -------------------------------------------------------------------- base

\* The inputs /^(as)?\d+$/i matches, among those passed.
AsnForms == { <<"15169">>, <<"AS13335">>, <<"as15169">> }
\* A variant of the test without the i flag.
isAsnCaseSensitive(q) == q \in { <<"15169">>, <<"as15169">> }
\* /^(as)?\d+$/i.test(query)
isAsn(q) == q \in AsnForms

\* The labels /^([a-z0-9-]{1,64}|xn[a-z0-9-]{5,})$/i matches that neither
\* start nor end with a hyphen, among the tokens used.
PlainLabels == {"example", "com", "zz", "1", "15169"}

\* isDomain: after dropping a trailing dot, more than one label, the last one
\* a TLD and the others plain labels.
isDomain(domain) ==
  LET d == IF domain # <<>> /\ domain[Len(domain)] = "."
           THEN SubSeq(domain, 1, Len(domain) - 1) ELSE domain
  IN /\ Len(d) >= 3 /\ Len(d) % 2 = 1
     /\ \A i \in DOMAIN d : (i % 2 = 0) <=> (d[i] = ".")
     /\ isTld(<< d[Len(d)] >>)
     /\ \A i \in DOMAIN d : (i % 2 = 1 /\ i < Len(d)) => d[i] \in PlainLabels

Unrecognized ==
  <<"Unrecognized query. Try a domain (google.com), IP (1.1.1.1) or TLD (.blog)">>

\* Queries passed to base.
BaseQueries ==
  { <<"1.1.1.1">>, <<"AS13335">>, <<"15169">>, <<"zz">>, <<".", "zz">>,
    <<"example", ".", "zz">>, <<"example", ".", "com">>, <<"-abc">>,
    <<"-abc", ".", "zz">>, <<"example", ".", "-abc">> }

\* base(q, {host: h, follow: f}): the first resolver whose test q passes is
\* called and runs up to its first await; when none does, base throws.
base(p, q, h, f) ==
  IF isIP(q) \/ isAsn(q) THEN CallIpOrAsn(p, q, h, f)
  ELSE IF isTld(q) THEN CallTld(p, q)
  ELSE IF isDomain(q) THEN CallDomain(p, q, h, f)
  ELSE /\ Callable(p)
       /\ calls' = calls + 1
       /\ op' = [op EXCEPT ![p] = "none"]
       /\ query' = [query EXCEPT ![p] = q]
       /\ hostOpt' = [hostOpt EXCEPT ![p] = h]
       /\ followOpt' = [followOpt EXCEPT ![p] = f]
       /\ pc' = [pc EXCEPT ![p] = "failed"]
       /\ ret' = [ret EXCEPT ![p] =
                    [kind |-> "thrown", value |-> EmptyRecord, error |-> Unrecognized]]
       /\ sent' = [sent EXCEPT ![p] = <<>>]
       /\ UNCHANGED << cacheWrites, host, follow, results, tldData, dnsCname, dnsSrv,
                       missed, ipData, crashed >>
       /\ UNCHANGED qvars

\* -------------------------------------------------------------- whoisQuery

\* The timeout option, in ticks of the clock.
TimeoutTicks == 2
\* The ticks of the clock that are followed.
MaxTime == 4
\* The chunks a peer sends.
MaxChunks == 2

\* The errors a socket runs into before it is connected, and after.
ConnectErrors == { <<"connect ECONNREFUSED">>, <<"getaddrinfo ENOTFOUND">> }
StreamErrors == { <<"read ECONNRESET">> }
TimeoutError == <<"Timeout">>

ErrorEvent(e) == [type |-> "error", err |-> e]
CloseEvent == [type |-> "close", err |-> <<>>]

\* What socket.destroy(err), or a socket failing with err, makes it emit.
DestroyEvents(e) == << ErrorEvent(e), CloseEvent >>

\* resolve(v) and reject(v): only the first to come settles the promise.
Settle(pr, how, v) == IF pr.state = "pending" THEN [state |-> how, value |-> v] ELSE pr

\* whoisQuery({host, query, timeout, proxyOptions}): the promise is made and
\* the connection is started, through the proxy client or by net.connect.
QueryCall(proxy) ==
  /\ ~crashed /\ qPhase = "idle"
  /\ qPhase' = "connecting"
  /\ qProxy' = proxy
  /\ qConnects' = qConnects + 1
  /\ UNCHANGED << qListening, qIdle, qElapsed, qOpenedAt, qData, qEvents, qPromise,
                  qSockErr, qPeerClosed >>
  /\ UNCHANGED << rvars, crashed >>

\* The connection is established: the callback runs addSocketEvents, which
\* sets the timer and the listeners, and writes the query.
ConnectOk ==
  /\ ~crashed /\ qPhase = "connecting"
  /\ qPhase' = "open"
  /\ qListening' = TRUE
  /\ qIdle' = 0
  /\ qOpenedAt' = qElapsed
  /\ UNCHANGED << qProxy, qElapsed, qData, qEvents, qPromise, qSockErr, qPeerClosed,
                  qConnects >>
  /\ UNCHANGED << rvars, crashed >>

\* The connection fails before it is established.  The proxy client hands
\* the error to the callback, which rejects; a socket of net.connect emits
\* 'error' and 'close'.
ConnectFail(e) ==
  /\ ~crashed /\ qPhase = "connecting"
  /\ qSockErr' = e
  /\ IF qProxy
     THEN /\ qPromise' = Settle(qPromise, "rejected", e)
          /\ qPhase' = "closed"
          /\ UNCHANGED qEvents
     ELSE /\ qEvents' = DestroyEvents(e)
          /\ qPhase' = "closing"
          /\ UNCHANGED qPromise
  /\ UNCHANGED << qProxy, qListening, qIdle, qElapsed, qOpenedAt, qData, qPeerClosed,
                  qConnects >>
  /\ UNCHANGED << rvars, crashed >>

\* A chunk arrives: the 'data' listener appends it; the socket was active.
Data ==
  /\ ~crashed /\ qPhase = "open" /\ Len(qData) < MaxChunks
  /\ qData' = Append(qData, "chunk")
  /\ qIdle' = 0
  /\ UNCHANGED << qPhase, qProxy, qListening, qElapsed, qOpenedAt, qEvents, qPromise,
                  qSockErr, qPeerClosed, qConnects >>
  /\ UNCHANGED << rvars, crashed >>

\* The peer closes the connection: the socket will emit 'close'.
PeerClose ==
  /\ ~crashed /\ qPhase = "open"
  /\ qPhase' = "closing"
  /\ qPeerClosed' = TRUE
  /\ qEvents' = << CloseEvent >>
  /\ UNCHANGED << qProxy, qListening, qIdle, qElapsed, qOpenedAt, qData, qPromise,
                  qSockErr, qConnects >>
  /\ UNCHANGED << rvars, crashed >>

\* The established connection fails: the socket will emit 'error' and 'close'.
StreamError(e) ==
  /\ ~crashed /\ qPhase = "open"
  /\ qPhase' = "closing"
  /\ qSockErr' = e
  /\ qEvents' = DestroyEvents(e)
  /\ UNCHANGED << qProxy, qListening, qIdle, qElapsed, qOpenedAt, qData, qPromise,
                  qPeerClosed, qConnects >>
  /\ UNCHANGED << rvars, crashed >>

\* Time passes.  The timer set by socket.setTimeout counts the ticks without
\* activity and is due when they reach the timeout; before the connection is
\* established no timer is set.  The clock is followed up to MaxTime.
Tick ==
  /\ ~crashed
  /\ \/ qPhase = "connecting" /\ qElapsed < MaxTime
     \/ qPhase = "open" /\ qIdle < TimeoutTicks
  /\ qElapsed' = IF qElapsed < MaxTime THEN qElapsed + 1 ELSE qElapsed
  /\ qIdle' = IF qPhase = "open" THEN qIdle + 1 ELSE qIdle
  /\ UNCHANGED << qPhase, qProxy, qListening, qOpenedAt, qData, qEvents, qPromise,
                  qSockErr, qPeerClosed, qConnects >>
  /\ UNCHANGED << rvars, crashed >>

\* The timer is due: the 'timeout' listener destroys the socket.
TimeoutFire ==
  /\ ~crashed /\ qPhase = "open" /\ qListening /\ qIdle = TimeoutTicks
  /\ qPhase' = "closing"
  /\ qEvents' = DestroyEvents(TimeoutError)
  /\ UNCHANGED << qProxy, qListening, qIdle, qElapsed, qOpenedAt, qData, qPromise,
                  qSockErr, qPeerClosed, qConnects >>
  /\ UNCHANGED << rvars, crashed >>

\* The socket emits its next event.  'error' goes to reject and 'close' to
\* resolve when the listeners are set; an 'error' without a listener is
\* thrown and ends the process.
Emit ==
  /\ ~crashed /\ qEvents # <<>>
  /\ LET e == Head(qEvents) IN
       /\ qPromise' = IF ~qListening THEN qPromise
                      ELSE IF e.type = "error" THEN Settle(qPromise, "rejected", e.err)
                      ELSE Settle(qPromise, "fulfilled", qData)
       /\ crashed' = (e.type = "error" /\ ~qListening)
  /\ qEvents' = Tail(qEvents)
  /\ qPhase' = IF Tail(qEvents) = <<>> THEN "closed" ELSE qPhase
  /\ UNCHANGED << qProxy, qListening, qIdle, qElapsed, qOpenedAt, qData, qSockErr,
                  qPeerClosed, qConnects >>
  /\ UNCHANGED rvars

\* ----------------------------------------------------------- specifications

Init ==
  /\ cacheWrites = NoWrites
  /\ pc = [p \in Procs |-> "idle"]
  /\ op = [p \in Procs |-> "tld"]
  /\ query = [p \in Procs |-> Undefined]
  /\ hostOpt = [p \in Procs |-> Undefined]
  /\ followOpt = [p \in Procs |-> DefaultFollow]
  /\ host = [p \in Procs |-> Undefined]
  /\ follow = [p \in Procs |-> DefaultFollow]
  /\ results = [p \in Procs |-> NoResults]
  /\ sent = [p \in Procs |-> <<>>]
  /\ tldData = [p \in Procs |-> EmptyRecord]
  /\ dnsCname = [p \in Procs |-> Pending]
  /\ dnsSrv = [p \in Procs |-> Pending]
  /\ ret = [p \in Procs |-> NoRet]
  /\ missed = [p \in Procs |-> FALSE]
  /\ ipData = [p \in Procs |-> NoData]
  /\ crashed = FALSE
  /\ calls = 0
  /\ qPhase = "idle"
  /\ qProxy = FALSE
  /\ qListening = FALSE
  /\ qIdle = 0
  /\ qElapsed = 0
  /\ qOpenedAt = 0
  /\ qData = <<>>
  /\ qEvents = <<>>
  /\ qPromise = [state |-> "pending", value |-> <<>>]
  /\ qSockErr = <<>>
  /\ qPeerClosed = FALSE
  /\ qConnects = 0

\* One caller making its calls one after the other, against every answer.
Next ==
  \E p \in {"p1"} :
    \/ \E d \in Domains, h \in HostOptions, f \in FollowOptions : CallDomain(p, d, h, f)
    \/ \E q \in TldQueries : CallTld(p, q)
    \/ \E data \in IanaRecords : IanaResolve(p, data)
    \/ \E e \in QueryErrors : IanaReject(p, e)
    \/ QueryCrash(p)
    \/ \E o \in CnameOutcomes : DnsCnameSettle(p, o)
    \/ \E o \in SrvOutcomes : DnsSrvSettle(p, o)
    \/ DnsJoin(p)
    \/ \E result \in DomainRecords : HopResolve(p, result)
    \/ \E e \in QueryErrors : HopReject(p, e)

Spec == Init /\ [][Next]_vars

\* What the concurrent callers pass and are answered.
ConcDomains == { <<"example", ".", "zz">>, <<"example", ".", "yy">>,
                 <<"example", ".", "com">> }
ConcIanaRecords == { [domain |-> <<"ZZ">>], [domain |-> <<"ZZ">>, whois |-> HostA],
                     [domain |-> <<"ZZ">>, whois |-> HostB] }
ConcCnameOutcomes == { [state |-> "rejected", value |-> <<>>] }
ConcSrvOutcomes == { [state |-> "rejected", value |-> <<>>],
                     [state |-> "fulfilled", value |-> << [name |-> HostB] >>] }
ConcDomainRecords == { EmptyRecord }

\* Two callers whose calls interleave at every await.
NextConc ==
  \E p \in Procs :
    \/ \E d \in ConcDomains, h \in HostOptions : CallDomain(p, d, h, 1)
    \/ CallTld(p, <<"zz">>)
    \/ \E data \in ConcIanaRecords : IanaResolve(p, data)
    \/ IanaReject(p, <<"Timeout">>)
    \/ QueryCrash(p)
    \/ \E o \in ConcCnameOutcomes : DnsCnameSettle(p, o)
    \/ \E o \in ConcSrvOutcomes : DnsSrvSettle(p, o)
    \/ DnsJoin(p)
    \/ \E result \in ConcDomainRecords : HopResolve(p, result)
    \/ HopReject(p, <<"Timeout">>)

SpecConc == Init /\ [][NextConc]_vars

\* One caller of whoisIpOrAsn making its calls one after the other.
NextIp ==
  \E p \in {"p1"} :
    \/ \E q \in IpQueries, h \in IpHostOptions, f \in FollowOptions :
         CallIpOrAsn(p, q, h, f)
    \/ \E parsed \in IpIanaRecords : IpIanaResolve(p, parsed)
    \/ \E e \in QueryErrors : IpIanaReject(p, e)
    \/ \E rec \in IpRecords : IpHopResolve(p, rec)
    \/ \E e \in QueryErrors : IpHopReject(p, e)
    \/ QueryCrash(p)

SpecIp == Init /\ [][NextIp]_vars

\* What the callers of base are answered.
BaseDomainRecords ==
  { EmptyRecord, Ref("Registrar WHOIS Server", HostA), Ref("Whois Server", HostB) }
BaseIpRecords ==
  { [NetName |-> <<"NET-A">>],
    [ReferralServer |-> <<"whois", "://", "whois.a">>],
    [ReferralServer |-> <<"rwhois", "://", "whois.b", ":4321">>],
    [ReferralServer |-> <<"whois.a">>] }

\* One caller of base making its calls one after the other.
NextBase ==
  \E p \in {"p1"} :
    \/ \E q \in BaseQueries, h \in HostOptions, f \in {1, DefaultFollow} : base(p, q, h, f)
    \/ \E parsed \in ConcIanaRecords : IanaResolve(p, parsed)
    \/ IanaReject(p, <<"Timeout">>)
    \/ QueryCrash(p)
    \/ \E o \in ConcCnameOutcomes : DnsCnameSettle(p, o)
    \/ \E o \in ConcSrvOutcomes : DnsSrvSettle(p, o)
    \/ DnsJoin(p)
    \/ \E result \in BaseDomainRecords : HopResolve(p, result)
    \/ HopReject(p, <<"Timeout">>)
    \/ \E parsed \in IpIanaRecords : IpIanaResolve(p, parsed)
    \/ IpIanaReject(p, <<"Timeout">>)
    \/ \E rec \in BaseIpRecords : IpHopResolve(p, rec)
    \/ IpHopReject(p, <<"Timeout">>)

SpecBase == Init /\ [][NextBase]_vars

\* One whoisQuery call against every behaviour of the peer.
NextQuery ==
  \/ \E proxy \in BOOLEAN : QueryCall(proxy)
  \/ ConnectOk
  \/ \E e \in ConnectErrors : ConnectFail(e)
  \/ Data
  \/ PeerClose
  \/ \E e \in StreamErrors : StreamError(e)
  \/ Tick
  \/ TimeoutFire
  \/ Emit

SpecQuery == Init /\ [][NextQuery]_vars

\* The same, with what the event loop guarantees: time passes, a due timer
\* fires and a pending event is emitted.  The peer owes nothing.
FairSpecQuery ==
  SpecQuery /\ WF_vars(Tick) /\ WF_vars(TimeoutFire) /\ WF_vars(Emit)

\* ------------------------------------------------------------ observations

\* The places of the log that are queries of the referral walk.
WalkIndices(p) == { i \in DOMAIN sent[p] : sent[p][i].by = "walk" }
\* The servers the referral walk has queried.
WalkHosts(p) == { sent[p][i].host : i \in WalkIndices(p) }
\* The places of the log that are discovery queries of whoisTld.
DiscoveryIndices(p) == { i \in DOMAIN sent[p] : sent[p][i].by = "tld" }

\* The call of p is the one taking this step.
Acts(p) == \A q \in Procs \ {p} : pc'[q] = pc[q] /\ sent'[q] = sent[q] /\ ret'[q] = ret[q]

\* --------------------------------------------------------------------- C1

\* C1: no server hostname is queried twice during one referral walk, and the
\* mapping whoisDomain returns holds each queried server exactly once.
C1_LoopPrevention ==
  \A p \in Procs :
    /\ \A i, j \in WalkIndices(p) : i # j => sent[p][i].host # sent[p][j].host
    /\ (op[p] = "domain" /\ pc[p] = "done") =>
         /\ DOMAIN ret[p].value = WalkHosts(p)
         /\ Cardinality(DOMAIN ret[p].value) = Cardinality(WalkIndices(p))

\* A walk that returned with hop budget left because its last server referred,
\* in URL form, back to a server queried before it.
C1_Witness ==
  \E p \in Procs :
    /\ op[p] = "domain" /\ pc[p] = "done" /\ follow[p] # 0
    /\ Len(sent[p]) >= 2
    /\ LET last == sent[p][Len(sent[p])] IN
         /\ last.by = "walk" /\ last.outcome = "fulfilled"
         /\ Truthy(Candidate(last.answer))
         /\ Includes(Candidate(last.answer), "://")
         /\ \E i \in WalkIndices(p) :
              i < Len(sent[p]) /\ sent[p][i].host = Reduced(Candidate(last.answer))

\* --------------------------------------------------------------------- C2

\* The hop budget a follow value stands for: none when it is negative.
Budget(f) == IF f < 0 THEN 0 ELSE f

\* C2: for every follow value passed, the referral walk queries at most follow
\* servers and the returned mapping has at most follow entries.
C2_HopBound ==
  \A p \in Procs :
    op[p] = "domain" =>
      /\ Cardinality(WalkIndices(p)) <= Budget(followOpt[p])
      /\ pc[p] = "done" => Cardinality(DOMAIN ret[p].value) <= Budget(followOpt[p])

\* --------------------------------------------------------------------- C3

\* C3: when the query to hop k fails, whoisDomain does not throw: it returns,
\* the failed hop is the last one queried, its record is {error: message}, and
\* the records of the hops before it are the ones their servers answered.
C3_HopFailureIsData ==
  \A p \in Procs :
    \A k \in WalkIndices(p) :
      sent[p][k].outcome \in {"rejected", "unhandled"} =>
        /\ pc[p] = "done" /\ ret[p].kind = "fulfilled"
        /\ k = Len(sent[p])
        /\ sent[p][k].host \in DOMAIN ret[p].value
        /\ DOMAIN ret[p].value[sent[p][k].host] = {"error"}
        /\ \A i \in WalkIndices(p) :
             i < k => ret[p].value[sent[p][i].host] = sent[p][i].answer

\* --------------------------------------------------------------------- C4

\* C4: once the registry server is identified (the walk has sent a query),
\* whoisDomain never fails, whatever the servers answer.
C4_NeverFailsOnceIdentified ==
  \A p \in Procs :
    (op[p] = "domain" /\ WalkIndices(p) # {}) => pc[p] # "failed"

\* --------------------------------------------------------------------- C5

\* C5: a direct whoisQuery whose socket ran into an error, before or after
\* the connection was established, rejects with that error once the socket
\* has emitted its events; the error is not left unhandled and the
\* connection is not tried again.
C5_SocketErrorsSurface ==
  (/\ ~qProxy /\ qSockErr # <<>>
   /\ \A i \in DOMAIN qEvents : qEvents[i].type # "error") =>
    /\ qPromise = [state |-> "rejected", value |-> qSockErr]
    /\ ~crashed
    /\ qConnects = 1

\* --------------------------------------------------------------------- C6

\* C6: every whoisQuery call eventually settles, whatever the peer does.
C6_QuerySettles == (qPhase # "idle") ~> (qPromise.state # "pending")

\* --------------------------------------------------------------------- C7

\* C7: once the timeout has passed since the connection was established and
\* the peer has not closed it, the timer is due or has fired: the socket is
\* being destroyed with 'Timeout', and when it is closed whoisQuery has
\* rejected with 'Timeout', not resolved with the data received so far.
C7_TimeoutOutcome ==
  (/\ qPhase \in {"open", "closing", "closed"} /\ qListening
   /\ qElapsed - qOpenedAt >= TimeoutTicks
   /\ ~qPeerClosed /\ qSockErr = <<>>) =>
    \/ qPhase = "open" /\ qIdle = TimeoutTicks
    \/ qPhase = "closing" /\ qEvents = DestroyEvents(TimeoutError)
    \/ /\ qPhase \in {"closing", "closed"}
       /\ qPromise = [state |-> "rejected", value |-> TimeoutError]

\* --------------------------------------------------------------------- C8

\* C8, as claimed: under any interleaving of calls an entry of the cache is
\* never removed and never changes value.
C8_CacheAppendOnly ==
  [][\A t \in DOMAIN cache : t \in DOMAIN cache' /\ cache'[t] = cache[t]]_vars

\* C8, amended: an entry of the cache is never removed, a seeded entry never
\* changes value, and a discovered entry changes value only when a whoisDomain
\* call for that TLD, which had missed the cache before the entry was written,
\* ends its own discovery and writes the server it discovered.
C8_CacheNeverShrinks ==
  [][\A t \in DOMAIN cache :
       /\ t \in DOMAIN cache'
       /\ cache'[t] # cache[t] =>
            /\ t \notin SeedTlds
            /\ \E p \in Procs :
                 /\ op[p] = "domain" /\ missed[p] /\ DomainTld(query[p]) = t
                 /\ pc[p] \in {"iana", "dns"} /\ pc'[p] \in {"hop", "done"}
                 /\ cache'[t] = tldData'[p].whois]_vars

\* Two whoisDomain calls for one uncached TLD both missed, discovered different
\* servers and both wrote: the entry holds the later one.
C8_Witness ==
  \E p, q \in Procs :
    /\ p # q
    /\ op[p] = "domain" /\ op[q] = "domain"
    /\ missed[p] /\ missed[q]
    /\ DomainTld(query[p]) = DomainTld(query[q])
    /\ pc[p] \in {"hop", "done"} /\ pc[q] \in {"hop", "done"}
    /\ tldData[p].whois # tldData[q].whois
    /\ cache[DomainTld(query[p])] = tldData[q].whois

\* --------------------------------------------------------------------- C9

\* C9, as claimed: once whoisTld has resolved a TLD, the cache holds an entry
\* for that TLD.
C9_TldPopulatesCache ==
  \A p \in Procs :
    (op[p] = "tld" /\ pc[p] = "done" /\ isTld(query[p])) =>
      query[p] \in DOMAIN cache

\* The whois value whoisTld returns, as the answers it received decide it.
C9_WhoisFromAnswers(iana, cname, srv) ==
  IF Truthy(Field(iana, "whois")) THEN iana.whois
  ELSE IF srv.state = "fulfilled" /\ srv.value # <<>> THEN srv.value[1].name
  ELSE IF cname.state = "fulfilled" /\ cname.value # <<>> THEN cname.value[1]
  ELSE Undefined

\* C9, amended: no step of a whoisTld call changes the cache, and the whois
\* value a whoisTld call returns is decided by the answers of whois.iana.org
\* and of the DNS lookups alone, so that two resolutions of one TLD that get
\* the same answers return the same whois.
C9_TldLeavesCache ==
  [][\A p \in Procs :
       (op'[p] = "tld" /\ Acts(p)) =>
         /\ cache' = cache
         /\ pc'[p] = "done" =>
              Field(ret'[p].value, "whois") =
                C9_WhoisFromAnswers(sent'[p][1].answer, dnsCname'[p], dnsSrv'[p])]_vars

\* A second call of the process, a whoisTld that succeeded through the DNS
\* lookups for a TLD the cache still does not hold.
C9_Witness ==
  \E p \in Procs :
    /\ op[p] = "tld" /\ pc[p] = "done" /\ calls = 2
    /\ isTld(query[p]) /\ query[p] \notin DOMAIN cache
    /\ dnsSrv[p].state = "fulfilled" /\ dnsCname[p].state = "fulfilled"
    /\ dnsSrv[p].value # <<>> /\ dnsCname[p].value # <<>>
    /\ Truthy(Field(ret[p].value, "whois"))

\* -------------------------------------------------------------------- C10

\* C10: whoisDomain finds its first server in the host option, else in the
\* cache, else by a discovery query to whois.iana.org sent before anything
\* else; with a host option the cache is left alone; a discovery that yields a
\* server writes it to the cache under the domain's TLD.
C10_LookupPriority ==
  [][\A p \in Procs :
       /\ (calls' = calls + 1 /\ op'[p] = "domain" /\ Acts(p)
             /\ pc[p] \in {"idle", "done", "failed"}) =>
            LET d == query'[p]
                h == hostOpt'[p]
                tld == DomainTld(d)
                walk == followOpt'[p] # 0
            IN /\ Truthy(h) =>
                    /\ \A i \in DOMAIN sent'[p] : sent'[p][i].by = "walk"
                    /\ walk => sent'[p] # <<>> /\ sent'[p][1].host = h
               /\ (~Truthy(h) /\ tld \in DOMAIN cache) =>
                    /\ \A i \in DOMAIN sent'[p] : sent'[p][i].by = "walk"
                    /\ walk => sent'[p] # <<>> /\ sent'[p][1].host = cache[tld]
               /\ (~Truthy(h) /\ tld \notin DOMAIN cache) =>
                    sent'[p] = << Sent(IanaHost, d, "tld") >>
       /\ (op'[p] = "domain" /\ Acts(p)) =>
            /\ \A i \in DOMAIN sent'[p] : sent'[p][i].by = "tld" => i = 1
            /\ Truthy(hostOpt'[p]) => cache' = cache
            /\ (pc[p] \in {"iana", "dns"} /\ pc'[p] \in {"hop", "done"}) =>
                 /\ DomainTld(query[p]) \in DOMAIN cache'
                 /\ cache'[DomainTld(query[p])] = tldData'[p].whois
                 /\ pc'[p] = "hop" => sent'[p][2].host = tldData'[p].whois]_vars

\* A later whoisDomain for a TLD an earlier call discovered: it is walking,
\* without a host option, and its first query went to the cached server.
C10_Witness ==
  \E p \in Procs :
    /\ op[p] = "domain" /\ pc[p] = "hop" /\ calls = 2
    /\ ~Truthy(hostOpt[p])
    /\ DomainTld(query[p]) \notin SeedTlds
    /\ DomainTld(query[p]) \in DOMAIN cache
    /\ sent[p][1].by = "walk"
    /\ sent[p][1].host = cache[DomainTld(query[p])]

\* -------------------------------------------------------------------- C11

\* C11, as claimed: every record whoisTld returns holds a whois field.
C11_TldRecordHasWhois ==
  \A p \in Procs :
    (op[p] = "tld" /\ pc[p] = "done") => Truthy(Field(ret[p].value, "whois"))

\* C11, amended: every record whoisTld returns holds a whois field or a
\* domain field, and it lacks the whois field exactly when whois.iana.org
\* named no server and neither DNS lookup yielded one.
C11_TldRecordHasWhoisOrDomain ==
  \A p \in Procs :
    (op[p] = "tld" /\ pc[p] = "done") =>
      /\ Truthy(Field(ret[p].value, "whois")) \/ Truthy(Field(ret[p].value, "domain"))
      /\ ~Truthy(Field(ret[p].value, "whois")) <=>
           /\ ~Truthy(Field(sent[p][1].answer, "whois"))
           /\ ~(dnsSrv[p].state = "fulfilled" /\ dnsSrv[p].value # <<>>)
           /\ ~(dnsCname[p].state = "fulfilled" /\ dnsCname[p].value # <<>>)

\* whoisTld returned the domain-only record of whois.iana.org after both DNS
\* lookups came back without a server.
C11_Witness ==
  \E p \in Procs :
    /\ op[p] = "tld" /\ pc[p] = "done" /\ isTld(query[p])
    /\ dnsSrv[p].state # "pending" /\ dnsCname[p].state # "pending"
    /\ Truthy(Field(ret[p].value, "domain"))
    /\ ~Truthy(Field(ret[p].value, "whois"))

\* -------------------------------------------------------------------- C12

\* The message the caller is to see for query q.
C12_Message(q) ==
  <<"TLD \"">> \o (IF q = Undefined THEN <<"undefined">> ELSE q) \o <<"\" not found">>

\* C12: a call whose query to whois.iana.org was answered is rejected with
\* 'TLD "<query>" not found', the query as passed, exactly when the answer
\* has neither whois nor domain and the DNS lookups yield no server.
C12_TldNotFound ==
  \A p \in Procs :
    (/\ pc[p] \in {"done", "failed"} /\ sent[p] # <<>>
     /\ sent[p][1].by = "tld" /\ sent[p][1].outcome = "fulfilled") =>
      LET nothing ==
            /\ ~Truthy(Field(sent[p][1].answer, "whois"))
            /\ ~Truthy(Field(sent[p][1].answer, "domain"))
            /\ ~(dnsSrv[p].state = "fulfilled" /\ dnsSrv[p].value # <<>>)
            /\ ~(dnsCname[p].state = "fulfilled" /\ dnsCname[p].value # <<>>)
      IN /\ nothing => /\ pc[p] = "failed" /\ ret[p].kind = "rejected"
                       /\ ret[p].error = C12_Message(query[p])
         /\ ~nothing => ~(\E q \in TldQueries \cup Domains :
                            ret[p].error = C12_Message(q))

\* whoisTld() with no query was rejected with 'TLD "undefined" not found'
\* after both DNS lookups settled.
C12_Witness ==
  \E p \in Procs :
    /\ op[p] = "tld" /\ pc[p] = "failed" /\ query[p] = Undefined
    /\ sent[p][1].outcome = "fulfilled"
    /\ dnsSrv[p].state # "pending" /\ dnsCname[p].state # "pending"
    /\ ret[p].error = <<"TLD \"", "undefined", "\" not found">>

\* -------------------------------------------------------------------- C13

\* C13: when whois.iana.org names no server both DNS lookups are started;
\* the settling of one, rejected or not, leaves the call waiting for the
\* other; the call goes on only when both have settled, and the server it
\* then holds is the SRV answer if there is one, else the CNAME answer, else
\* none.
C13_DnsFallback ==
  [][\A p \in Procs :
       /\ (pc[p] # "dns" /\ pc'[p] = "dns") =>
            /\ ~Truthy(Field(tldData'[p], "whois"))
            /\ dnsCname'[p] = Pending /\ dnsSrv'[p] = Pending
       /\ (pc[p] = "dns" /\ (dnsCname'[p] # dnsCname[p] \/ dnsSrv'[p] # dnsSrv[p])) =>
            /\ pc'[p] = "dns" /\ ret'[p] = ret[p]
            /\ dnsCname[p].state # "pending" => dnsCname'[p] = dnsCname[p]
            /\ dnsSrv[p].state # "pending" => dnsSrv'[p] = dnsSrv[p]
       /\ (pc[p] = "dns" /\ pc'[p] # "dns") =>
            /\ dnsCname[p].state # "pending" /\ dnsSrv[p].state # "pending"
            /\ Field(tldData'[p], "whois") =
                 IF dnsSrv[p].state = "fulfilled" /\ dnsSrv[p].value # <<>>
                 THEN dnsSrv[p].value[1].name
                 ELSE IF dnsCname[p].state = "fulfilled" /\ dnsCname[p].value # <<>>
                 THEN dnsCname[p].value[1]
                 ELSE Undefined]_vars

\* The CNAME lookup was rejected, the SRV lookup yielded a server,
\* and whoisTld returned it.
C13_Witness ==
  \E p \in Procs :
    /\ op[p] = "tld" /\ pc[p] = "done"
    /\ dnsCname[p].state = "rejected"
    /\ dnsSrv[p].state = "fulfilled" /\ dnsSrv[p].value # <<>>
    /\ Field(ret[p].value, "whois") = dnsSrv[p].value[1].name

\* -------------------------------------------------------------------- C14

\* C14: when the query to a server of the IP walk fails, that query is the
\* last one sent and whoisIpOrAsn is rejected with its error, returning no
\* record.
C14_IpHopFailureIsFatal ==
  \A p \in Procs :
    \A k \in WalkIndices(p) :
      (op[p] = "ip" /\ sent[p][k].outcome \in {"rejected", "unhandled"}) =>
        /\ k = Len(sent[p])
        /\ pc[p] = "failed" /\ ret[p].kind = "rejected"
        /\ ret[p].value = EmptyRecord
        /\ sent[p][k].outcome = "rejected" => ret[p].error = sent[p][k].answer.error

\* -------------------------------------------------------------------- C15

\* C15: whenever whoisIpOrAsn returns, for every follow value and host
\* option, at least one server of the walk was queried and the value returned
\* is the record parsed from the answer of the last server queried.
C15_IpReturnsLastRecord ==
  \A p \in Procs :
    (op[p] = "ip" /\ pc[p] = "done") =>
      /\ WalkIndices(p) # {}
      /\ ipData[p].set
      /\ sent[p][Len(sent[p])].by = "walk"
      /\ ret[p].value = sent[p][Len(sent[p])].answer

\* -------------------------------------------------------------------- C18

\* C18: for every follow value passed and every chain of ReferralServer
\* values, whoisIpOrAsn sends at most follow queries to the servers of the
\* walk.
C18_IpHopBound ==
  \A p \in Procs :
    op[p] = "ip" => Cardinality(WalkIndices(p)) <= Budget(followOpt[p])

\* -------------------------------------------------------------------- C16

\* The resolver each query passed to base belongs to.
C16_Kind(q) ==
  CASE q \in { <<"1.1.1.1">>, <<"AS13335">>, <<"15169">> } -> "ip"
    [] q \in { <<"zz">>, <<".", "zz">> } -> "tld"
    [] q \in { <<"example", ".", "zz">>, <<"example", ".", "com">> } -> "domain"
    [] OTHER -> "none"

\* C16: a call of base runs the one resolver its query belongs to, IP
\* literals and AS numbers going to whoisIpOrAsn, TLDs to whoisTld and
\* domains to whoisDomain; for a query that is none of them base throws
\* 'Unrecognized query' at once, having sent no query and left the cache as
\* it was.
C16_Dispatch ==
  [][\A p \in Procs :
       (/\ calls' = calls + 1 /\ Acts(p)
        /\ pc[p] \in {"idle", "done", "failed"} /\ pc'[p] # "idle") =>
         /\ op'[p] = C16_Kind(query'[p])
         /\ op'[p] = "ip" =>
              /\ sent'[p] # <<>> => sent'[p][1].by \in {"iana", "walk"}
              /\ pc'[p] \in {"ipiana", "iphop", "done"}
         /\ op'[p] = "tld" =>
              /\ sent'[p] = << Sent(IanaHost, query'[p], "tld") >>
              /\ pc'[p] = "iana"
         /\ op'[p] = "domain" =>
              /\ sent'[p] # <<>> => sent'[p][1].by \in {"tld", "walk"}
              /\ pc'[p] \in {"iana", "hop", "done"}
         /\ op'[p] = "none" =>
              /\ pc'[p] = "failed" /\ ret'[p].kind = "thrown"
              /\ ret'[p].error = Unrecognized
              /\ sent'[p] = <<>>
              /\ cacheWrites' = cacheWrites]_vars

\* base('-abc') threw after an earlier call had discovered a server and
\* written it to the cache.
C16_Witness ==
  \E p \in Procs :
    /\ op[p] = "none" /\ pc[p] = "failed" /\ query[p] = <<"-abc">>
    /\ ret[p].kind = "thrown" /\ sent[p] = <<>>
    /\ cacheWrites # NoWrites

\* -------------------------------------------------------------------- C17

\* C17: within one whoisDomain or whoisIpOrAsn call at most one whoisQuery is
\* in flight, every query but the last one sent has been answered, and a
\* server of the walk queried after another is the next hop derived from
\* that one's answer: in the IP walk the referral value is a scheme, '://'
\* and the server queried next.
C17_SequentialHops ==
  \A p \in Procs :
    op[p] \in {"domain", "ip"} =>
      /\ \A i \in DOMAIN sent[p] : i < Len(sent[p]) => sent[p][i].outcome = "fulfilled"
      /\ \A i \in WalkIndices(p) :
           (i + 1) \in WalkIndices(p) =>
             LET answer == sent[p][i].answer
                 next == sent[p][i + 1].host
             IN IF op[p] = "ip"
                THEN /\ "ReferralServer" \in DOMAIN answer
                     /\ Len(answer.ReferralServer) >= 2
                     /\ answer.ReferralServer[2] = "://"
                     /\ answer.ReferralServer =
                          << answer.ReferralServer[1], "://" >> \o next
                ELSE next = Reduced(Candidate(answer))

\* An IP walk whose second query went to the server the first one referred
\* to, port included, and is still in flight.
C17_Witness ==
  \E p \in Procs :
    /\ op[p] = "ip" /\ pc[p] = "iphop" /\ Len(sent[p]) >= 2
    /\ sent[p][Len(sent[p])].outcome = "pending"
    /\ sent[p][Len(sent[p])].host = <<"whois.b", ":4321">>
    /\ sent[p][Len(sent[p]) - 1].by = "walk"

\* -------------------------------------------------------------------- C19

\* The value the claim names for a record: the first referral field set, in
\* the fixed order, else whois.google.com for a Registrar URL of
\* domains.google, else none.
C19_Chosen(result) ==
  IF Truthy(Field(result, "Registrar WHOIS Server")) THEN result["Registrar WHOIS Server"]
  ELSE IF Truthy(Field(result, "Registry WHOIS Server")) THEN result["Registry WHOIS Server"]
  ELSE IF Truthy(Field(result, "ReferralServer")) THEN result["ReferralServer"]
  ELSE IF Truthy(Field(result, "Registrar Whois")) THEN result["Registrar Whois"]
  ELSE IF Truthy(Field(result, "Whois Server")) THEN result["Whois Server"]
  ELSE IF Truthy(Field(result, "WHOIS Server")) THEN result["WHOIS Server"]
  ELSE IF /\ Truthy(Field(result, "Registrar URL"))
          /\ \E i \in DOMAIN result["Registrar URL"] :
               result["Registrar URL"][i] = "domains.google"
  THEN <<"whois.google.com">>
  ELSE Undefined

\* C19: in a whoisDomain walk the server queried after another is the value
\* chosen from that one's record, reduced to its host name if it is a URL and
\* corrected by the misspelling table; no server queried after the first
\* holds a scheme or is a key of that table; and a walk that returned with
\* budget left had no value chosen, or one that reduces to nothing or to a
\* server queried already.
C19_NextHopSelection ==
  \A p \in Procs :
    op[p] = "domain" =>
      /\ \A i \in WalkIndices(p) :
           (i + 1) \in WalkIndices(p) =>
             LET next == sent[p][i + 1].host
             IN /\ next = Reduced(C19_Chosen(sent[p][i].answer))
                /\ ~Includes(next, "://")
                /\ next \notin MisspelledKeys
      /\ (/\ pc[p] = "done" /\ follow[p] # 0 /\ sent[p] # <<>>
          /\ sent[p][Len(sent[p])].by = "walk"
          /\ sent[p][Len(sent[p])].outcome = "fulfilled") =>
           LET c == C19_Chosen(sent[p][Len(sent[p])].answer)
           IN \/ ~Truthy(c)
              \/ ~Truthy(Reduced(c))
              \/ Reduced(c) \in WalkHosts(p)

\* A walk whose first server named two referral fields and whose second query
\* went to the one that comes first in the order.
C19_Witness ==
  \E p \in Procs :
    /\ op[p] = "domain" /\ Len(sent[p]) >= 2
    /\ LET a == sent[p][Len(sent[p]) - 1]
           b == sent[p][Len(sent[p])]
       IN /\ a.by = "walk" /\ b.by = "walk"
          /\ Truthy(Field(a.answer, "Registry WHOIS Server"))
          /\ Truthy(Field(a.answer, "Whois Server"))
          /\ b.host = a.answer["Registry WHOIS Server"]
          /\ b.host # a.answer["Whois Server"]

\* -------------------------------------------------------------------- C20

\* C20: when the discovery of a whoisDomain call ends with a record that has
\* a domain but no whois, the call is rejected with 'TLD for "<domain>" not
\* supported', no query of the walk is sent and the cache is left as it was;
\* the cache changes only in the step that ends a call's discovery with a
\* whois server, and only at the TLD of that call's domain, to that server.
C20_TldUnsupportedLeavesCache ==
  [][/\ \A p \in Procs :
          (/\ op[p] = "domain" /\ pc[p] \in {"iana", "dns"}
           /\ pc'[p] \notin {"iana", "dns"}
           /\ sent'[p][1].outcome = "fulfilled"
           /\ Truthy(Field(tldData'[p], "domain"))
           /\ ~Truthy(Field(tldData'[p], "whois"))) =>
            /\ pc'[p] = "failed" /\ ret'[p].kind = "rejected"
            /\ ret'[p].error = <<"TLD for \"">> \o query[p] \o <<"\" not supported">>
            /\ \A i \in DOMAIN sent'[p] : sent'[p][i].by = "tld"
            /\ cache' = cache
     /\ \A t \in DOMAIN cache' :
          (t \notin DOMAIN cache \/ cache'[t] # cache[t]) =>
            \E p \in Procs :
              /\ op[p] = "domain" /\ pc[p] \in {"iana", "dns"}
              /\ pc'[p] \in {"hop", "done"}
              /\ Truthy(Field(tldData'[p], "whois"))
              /\ t = DomainTld(query[p])
              /\ cache'[t] = tldData'[p].whois]_vars

\* A whoisDomain call for an uncached TLD was rejected with TldUnsupported
\* after both DNS lookups settled, and the cache holds no entry for that TLD
\* while it holds one another call discovered.
C20_Witness ==
  \E p \in Procs :
    /\ op[p] = "domain" /\ pc[p] = "failed" /\ missed[p]
    /\ dnsSrv[p].state # "pending" /\ dnsCname[p].state # "pending"
    /\ ret[p].error = <<"TLD for \"">> \o query[p] \o <<"\" not supported">>
    /\ DomainTld(query[p]) \notin DOMAIN cache
    /\ cacheWrites # NoWrites

\* -------------------------------------------------------------------- C21

\* C21: a whoisIpOrAsn call with a host option sends no discovery query to
\* whois.iana.org and its first query goes to that host; without one its
\* first query goes to whois.iana.org with the query as passed, and when the
\* answer has no whois field the call is rejected with 'No WHOIS server for
\* "<query>"' having queried no other server, else the next query goes to
\* the server the answer names; no step of the call changes the cache.
C21_IpServerDiscovery ==
  [][\A p \in Procs :
       op'[p] = "ip" =>
         LET log == sent'[p] IN
           /\ Truthy(hostOpt'[p]) =>
                /\ \A i \in DOMAIN log : log[i].by = "walk"
                /\ log # <<>> => log[1].host = hostOpt'[p]
           /\ ~Truthy(hostOpt'[p]) =>
                /\ log # <<>>
                /\ log[1].by = "iana" /\ log[1].host = IanaHost
                /\ log[1].query = query'[p]
                /\ \A i \in DOMAIN log : i > 1 => log[i].by = "walk"
                /\ (log[1].outcome = "fulfilled"
                      /\ ~Truthy(Field(log[1].answer, "whois"))) =>
                     /\ Len(log) = 1
                     /\ pc'[p] = "failed" /\ ret'[p].kind = "rejected"
                     /\ ret'[p].error =
                          <<"No WHOIS server for \"">> \o query'[p] \o <<"\"">>
                /\ (log[1].outcome = "fulfilled" /\ Len(log) >= 2) =>
                     /\ Truthy(Field(log[1].answer, "whois"))
                     /\ log[2].host = log[1].answer.whois
           /\ (pc'[p] # pc[p] \/ sent'[p] # sent[p]) => cacheWrites' = cacheWrites]_vars

\* After an earlier call wrote a discovered server to the cache, a
\* whoisIpOrAsn call without host option was rejected with NoWhoisServer on
\* an answer of whois.iana.org that names no whois server.
C21_Witness ==
  \E p \in Procs :
    /\ op[p] = "ip" /\ pc[p] = "failed" /\ ~Truthy(hostOpt[p])
    /\ Len(sent[p]) = 1 /\ sent[p][1].outcome = "fulfilled"
    /\ "refer" \in DOMAIN sent[p][1].answer
    /\ ret[p].error = <<"No WHOIS server for \"">> \o query[p] \o <<"\"">>
    /\ cacheWrites # NoWrites

====
